---- MODULE Spec2Model ----
(***************************************************************************)
(* Model of the um_packing extension module (um_packing.c): the two        *)
(* entry points wgdos_unpack_py (decode) and wgdos_pack_py (encode), the   *)
(* byte-order normalization they perform around the WGDOS codec, their     *)
(* status checks and the ownership of the buffers they allocate.           *)
(*                                                                         *)
(* A buffer is a sequence of bytes.  The caller-held input of a decode is  *)
(* the memory that "s#" hands to the C code: wgdos_unpack_py works on that *)
(* memory in place, so it is one variable (bytes_in) that outlives a call. *)
(***************************************************************************)
EXTENDS Integers, Sequences, FiniteSets, TLC

VARIABLES
  host,            \* get_machine_endianism(): "little" or "big"
  op,              \* entry point of the current / last call
  pc,              \* position inside the entry point
  calls,           \* number of calls made so far
  bytes_in,        \* caller-held byte buffer of wgdos_unpack_py
  mdi,             \* missing data indicator argument
  loc,             \* C locals: status, accuracy, cols, rows, len_comp, num_words, out_len
  dataout,         \* allocation state of dataout
  comp_field_ptr,  \* allocation state of comp_field_ptr
  comp_mem,        \* bytes behind comp_field_ptr
  result,          \* what the entry point returned to the caller
  hist             \* history of the current call (events, entry bytes, previous result)

vars == <<host, op, pc, calls, bytes_in, mdi, loc, dataout, comp_field_ptr,
          comp_mem, result, hist>>

----------------------------------------------------------------------------
(* Bounds of the exploration *)

MaxCalls == 3      \* calls the caller makes on one buffer
MaxDim   == 2      \* largest rows / cols value
MaxWords == 3      \* longest input stream, in 8-byte words

(* sizeof(int64_t) == sizeof(double): the width of a stream word in bytes *)
W == 8

(* Bytes of the WGDOS header: three 32-bit words (length, accuracy, cols|rows) *)
HeaderBytes == 12

----------------------------------------------------------------------------
(* Byte sequences *)

Reverse(s) == [i \in 1..Len(s) |-> s[Len(s) + 1 - i]]

Take(s, n) == SubSeq(s, 1, IF n < Len(s) THEN n ELSE Len(s))

RECURSIVE Val(_)
(* Unsigned value of a most-significant-byte-first byte sequence *)
Val(bs) == IF bs = <<>> THEN 0
           ELSE 256 * Val(SubSeq(bs, 1, Len(bs) - 1)) + bs[Len(bs)]

(* The bytes of a native 64-bit word, most significant first *)
Msb(word) == IF host = "big" THEN word ELSE Reverse(word)

(* Word k (from 1) of a byte buffer *)
WordAt(mem, k) == SubSeq(mem, (k - 1) * W + 1, k * W)

(* Every whole word of a buffer with its bytes reversed; a trailing part   *)
(* word is left as it is                                                   *)
SwapAllWords(mem) ==
  [i \in 1..Len(mem) |->
     IF (i - 1) \div W < Len(mem) \div W
     THEN WordAt(mem, ((i - 1) \div W) + 1)[W - ((i - 1) % W)]
     ELSE mem[i]]

----------------------------------------------------------------------------
(* The library routines the entry points call *)

(* get_machine_endianism() == littleEndian *)
NeedsSwap == host = "little"

(* a status check that only takes negative codes for failures *)
FailedNeg(st) == st < 0

(* A status check of the form  if (status != 0)  *)
Failed(st) == st # 0

(* pio_byteswap(array, len, word_len): reverse the bytes of each of the    *)
(* first len words of word_len bytes, in place                             *)
pio_byteswap(array, len, word_len) ==
  [i \in 1..Len(array) |->
     IF i <= len * word_len
     THEN array[((i - 1) \div word_len) * word_len
                + (word_len - ((i - 1) % word_len))]
     ELSE array[i]]

(* the word count one short: the last word is not swapped *)
SwapWordsInShort(n) == (n \div W) - 1

(* n_bytes/(int64_t)sizeof(int64_t): the number of words handed to         *)
(* pio_byteswap and to xpnd_all_wrapper on decode                          *)
SwapWordsIn(n) == n \div W

(* The header fields as read_wgdos_header sees them: the first two native  *)
(* 64-bit words of the memory at bytes_in.  It is given no length.         *)
read_wgdos_header(view) ==
  LET w0 == Msb(WordAt(view, 1))
      w1 == Msb(WordAt(view, 2))
      c  == Val(SubSeq(w1, 1, 2))
      r  == Val(SubSeq(w1, 3, 4))
  IN  [status   |-> IF c <= 0 \/ r <= 0 THEN 1 ELSE 0,
       accuracy |-> Val(SubSeq(w0, 5, 8)),
       cols     |-> c,
       rows     |-> r]

(* The memory read_wgdos_header reads: 2 words from bytes_in on; what lies *)
(* beyond the caller's n_bytes is whatever memory follows (g)              *)
HeaderView(mem, g) ==
  [i \in 1..(2 * W) |-> IF i <= Len(mem) THEN mem[i] ELSE g[i]]

(* xpnd_all_wrapper on len_comp native words: fails when the stream is     *)
(* shorter than the header or than the length the header declares,         *)
(* otherwise gives the field carried by the words after the header         *)
xpnd_all_wrapper(mem, len_comp, c, r, acc, m) ==
  LET declared == IF len_comp >= 1 THEN Val(SubSeq(Msb(WordAt(mem, 1)), 1, 4)) ELSE 0
      bad      == 4 * 2 * len_comp < HeaderBytes \/ declared > 2 * len_comp
  IN  [status |-> IF bad THEN 1 ELSE 0,
       data   |-> IF bad THEN <<>>
                  ELSE [k \in 1..(len_comp - 2) |-> Msb(WordAt(mem, k + 2))]]

----------------------------------------------------------------------------
(* Values returned to the caller *)

NoResult == [kind |-> "none", msg |-> "", rows |-> 0, cols |-> 0, data |-> <<>>]

Error(m) == [kind |-> "error", msg |-> m, rows |-> 0, cols |-> 0, data |-> <<>>]

FieldResult(r, c, d) == [kind |-> "field", msg |-> "", rows |-> r, cols |-> c, data |-> d]

BytesResult(b) == [kind |-> "bytes", msg |-> "", rows |-> 0, cols |-> 0, data |-> b]

----------------------------------------------------------------------------
(* Inputs *)

Hdr0(len, acc) == <<0, 0, 0, len, 0, 0, 0, acc>>

Hdr1(c, r) == <<0, c, 0, r, 0, 0, 0, 0>>

PayloadWords == { <<1, 2, 3, 4, 5, 6, 7, 8>>, <<9, 9, 9, 9, 9, 9, 9, 9>> }

RECURSIVE Repeat(_, _)
Repeat(w, k) == IF k <= 0 THEN <<>> ELSE w \o Repeat(w, k - 1)

(* A stream in big-endian (on-disk) order *)
Stream(len, acc, c, r, p, nwords) ==
  Take(Hdr0(len, acc) \o Hdr1(c, r) \o Repeat(p, nwords - 2), nwords * W)

(* The byte strings a caller passes to wgdos_unpack: well-formed streams   *)
(* and streams cut at any 4-byte boundary                                   *)
InputStreams ==
  { Take(Stream(len, 1, c, r, p, MaxWords), 4 * k) :
      len \in {2 * MaxWords, 2 * MaxWords + 2},
      c \in 0..MaxDim, r \in 0..MaxDim, p \in PayloadWords,
      k \in 0..(2 * MaxWords) }

(* What may lie in memory after a short buffer *)
Garbage ==
  { Repeat(<<0, 0, 0, 0, 0, 0, 0, 0>>, 2),
    Hdr0(2 * MaxWords, 1) \o Hdr1(1, 1),
    Reverse(Hdr0(2 * MaxWords, 1)) \o Reverse(Hdr1(1, 1)) }

MdiSet == { 0 }

NoLoc == [status |-> 1, accuracy |-> 0, cols |-> 0, rows |-> 0,
          len_comp |-> 0, num_words |-> 0, out_len |-> 0]

NoHist == [entry |-> <<>>, trace |-> <<>>, prev |-> NoResult, retry |-> FALSE,
           env |-> FALSE, prevEnv |-> FALSE, fromPack |-> FALSE,
           native |-> <<>>, n |-> 0]

(* One step of a call: the routine invoked, the status it reported, the   *)
(* state of the buffer it was given, a count and the bytes it saw          *)
Event(e, st, ptr, n, mem) == [ev |-> e, st |-> st, ptr |-> ptr, n |-> n, mem |-> mem]

----------------------------------------------------------------------------
Init ==
  /\ host \in {"little", "big"}
  /\ op = "none"
  /\ pc = "idle"
  /\ calls = 0
  /\ bytes_in = <<>>
  /\ mdi = 0
  /\ loc = NoLoc
  /\ dataout = "unset"
  /\ comp_field_ptr = "unset"
  /\ comp_mem = <<>>
  /\ result = NoResult
  /\ hist = NoHist

(* return <value> from the entry point *)
Return(res) ==
  /\ pc' = "done"
  /\ result' = res

----------------------------------------------------------------------------
(* wgdos_unpack_py *)

(* Entry: PyArg_ParseTuple "s#d" and the initialisation of the locals *)
EnterUnpack(b, m, retry, fromPack) ==
  /\ op' = "unpack"
  /\ pc' = "u_swap"
  /\ calls' = calls + 1
  /\ bytes_in' = b
  /\ mdi' = m
  /\ loc' = NoLoc
  /\ dataout' = "unset"
  /\ result' = NoResult
  /\ hist' = [hist EXCEPT !.entry = b, !.trace = <<>>, !.prev = result,
                          !.retry = retry, !.env = FALSE, !.prevEnv = hist.env,
                          !.fromPack = fromPack]
  /\ UNCHANGED <<host, comp_field_ptr, comp_mem>>

(* The caller decodes a byte string it holds *)
CallUnpack ==
  /\ pc = "idle"
  /\ calls < MaxCalls
  /\ \E b \in InputStreams, m \in MdiSet : EnterUnpack(b, m, FALSE, FALSE)

(* The caller decodes the same byte string again, with the same mdi *)
RetryUnpack ==
  /\ pc = "done"
  /\ op = "unpack"
  /\ calls < MaxCalls
  /\ EnterUnpack(bytes_in, mdi, TRUE, hist.fromPack)

(* Lines 93-102: byte swap of the incoming buffer *)
U_Byteswap ==
  /\ pc = "u_swap"
  /\ IF NeedsSwap
     THEN \E st \in {0, 1} :
            LET n == SwapWordsIn(Len(bytes_in)) IN
            /\ loc' = [loc EXCEPT !.status = st]
            /\ bytes_in' = IF st = 0 THEN pio_byteswap(bytes_in, n, W) ELSE bytes_in
            /\ hist' = [hist EXCEPT !.trace = Append(@, Event("swap", st, "bytes_in", n, bytes_in)),
                                    !.env = @ \/ st # 0]
            /\ IF Failed(st)
               THEN Return(Error("Problem in byte-swapping"))
               ELSE pc' = "u_header" /\ UNCHANGED result
     ELSE /\ pc' = "u_header"
          /\ UNCHANGED <<loc, bytes_in, hist, result>>
  /\ UNCHANGED <<host, op, calls, mdi, dataout, comp_field_ptr, comp_mem>>

(* Lines 104-116: read_wgdos_header and its status check *)
U_ReadHeader ==
  /\ pc = "u_header"
  /\ \E g \in Garbage :
       LET h == read_wgdos_header(HeaderView(bytes_in, g)) IN
       /\ loc' = [loc EXCEPT !.status = h.status, !.accuracy = h.accuracy,
                             !.cols = h.cols, !.rows = h.rows]
       /\ hist' = [hist EXCEPT !.trace = Append(@, Event("header", h.status, "bytes_in", 0, bytes_in)),
                               !.env = @ \/ Len(bytes_in) < 2 * W]
       /\ IF Failed(h.status)
          THEN Return(Error("Problem reading WGDOS header"))
          ELSE pc' = "u_alloc" /\ UNCHANGED result
  /\ UNCHANGED <<host, op, calls, bytes_in, mdi, dataout, comp_field_ptr, comp_mem>>

(* Lines 118-123: calloc of the output field and its NULL check *)
U_Alloc ==
  /\ pc = "u_alloc"
  /\ \E p \in {"alloc", "null"} :
       /\ dataout' = p
       /\ hist' = [hist EXCEPT !.trace = Append(@, Event("calloc", 0, p, loc.rows * loc.cols, <<>>)),
                               !.env = @ \/ p = "null"]
       /\ IF p = "null"
          THEN Return(Error("Unable to allocate memory for unpacking"))
          ELSE pc' = "u_xpnd" /\ UNCHANGED result
  /\ UNCHANGED <<host, op, calls, bytes_in, mdi, loc, comp_field_ptr, comp_mem>>

(* Lines 125-145: xpnd_all_wrapper and its status check *)
U_Xpnd ==
  /\ pc = "u_xpnd"
  /\ LET len_comp == SwapWordsIn(Len(bytes_in))
         x == xpnd_all_wrapper(bytes_in, len_comp, loc.cols, loc.rows, loc.accuracy, mdi)
     IN
     /\ loc' = [loc EXCEPT !.status = x.status, !.len_comp = len_comp]
     /\ hist' = [hist EXCEPT !.trace = Append(@, Event("xpnd", x.status, dataout, len_comp,
                                                       Take(bytes_in, len_comp * W)))]
     /\ IF Failed(x.status)
        THEN /\ dataout' = "freed"
             /\ Return(Error("xpnd_all_wrapper error"))
        ELSE /\ pc' = "u_array"
             /\ UNCHANGED <<dataout, result>>
  /\ UNCHANGED <<host, op, calls, bytes_in, mdi, comp_field_ptr, comp_mem>>

(* Lines 147-166: PyArray_SimpleNewFromData, ownership transfer, return *)
U_MakeArray ==
  /\ pc = "u_array"
  /\ \E ok \in BOOLEAN :
       /\ hist' = [hist EXCEPT !.trace = Append(@, Event("array", IF ok THEN 0 ELSE 1, dataout, 0, <<>>)),
                               !.env = @ \/ ~ok]
       /\ IF ok
          THEN /\ dataout' = "owned"
               /\ Return(FieldResult(loc.rows, loc.cols,
                    xpnd_all_wrapper(bytes_in, loc.len_comp, loc.cols, loc.rows,
                                     loc.accuracy, mdi).data))
          ELSE /\ dataout' = "freed"
               /\ Return(Error("Failed to make numpy array"))
  /\ UNCHANGED <<host, op, calls, bytes_in, mdi, loc, comp_field_ptr, comp_mem>>

----------------------------------------------------------------------------
(* wgdos_pack_py *)

(* Entry: PyArg_ParseTuple "Odl", PyArray_DIMS and the locals (169-190) *)
CallPack ==
  /\ pc = "idle"
  /\ calls < MaxCalls
  /\ \E r \in 0..MaxDim, c \in 0..MaxDim, m \in MdiSet :
       /\ op' = "pack"
       /\ pc' = "p_alloc"
       /\ calls' = calls + 1
       /\ mdi' = m
       /\ loc' = [NoLoc EXCEPT !.rows = r, !.cols = c, !.accuracy = 1]
       /\ comp_field_ptr' = "unset"
       /\ comp_mem' = <<>>
       /\ result' = NoResult
       /\ hist' = [NoHist EXCEPT !.prev = result]
  /\ UNCHANGED <<host, bytes_in, dataout>>

(* Lines 192-195: calloc of rows*cols words; the result is not checked *)
P_Alloc ==
  /\ pc = "p_alloc"
  /\ \E p \in {"alloc", "null"} :
       LET len_comp == loc.rows * loc.cols IN
       /\ comp_field_ptr' = p
       /\ comp_mem' = IF p = "alloc" THEN [i \in 1..(len_comp * W) |-> 0] ELSE <<>>
       /\ loc' = [loc EXCEPT !.len_comp = len_comp]
       /\ hist' = [hist EXCEPT !.trace = Append(@, Event("calloc", 0, p, len_comp, <<>>)),
                               !.env = @ \/ p = "null"]
  /\ pc' = "p_cmps"
  /\ UNCHANGED <<host, op, calls, bytes_in, mdi, dataout, result>>

(* the rounding without the + 1: rounds down *)
P_RoundDown(n) == n \div 2

(* Line 219: round the count of 32-bit words up to whole 64-bit words *)
P_Round(n) == (n + 1) \div 2

(* What cmps_all_wrapper leaves in a buffer of len_comp words when it      *)
(* reports n 32-bit words: the header and payload in native order, the     *)
(* rest as calloc zeroed it                                                *)
cmps_all_wrapper(len_comp, c, r, acc, n, p) ==
  LET used == (n + 1) \div 2
      logical == Hdr0(n, acc) \o Hdr1(c, r) \o Repeat(p, len_comp - 2)
  IN  [i \in 1..(len_comp * W) |->
         IF (i - 1) \div W < used
         THEN Msb(WordAt(logical, ((i - 1) \div W) + 1))[((i - 1) % W) + 1]
         ELSE 0]

(* Lines 201-216: cmps_all_wrapper and its status check.  With a NULL      *)
(* buffer the call writes through a null pointer: the process dies, or     *)
(* the routine gives up with a non-zero status before it writes            *)
P_Cmps ==
  /\ pc = "p_cmps"
  /\ \/ /\ comp_field_ptr = "null"
        /\ hist' = [hist EXCEPT !.trace = Append(@, Event("cmps", 1, comp_field_ptr, 0, <<>>))]
        /\ \/ pc' = "crashed" /\ UNCHANGED <<result, loc, comp_field_ptr>>
           \/ /\ loc' = [loc EXCEPT !.status = 1]
              /\ comp_field_ptr' = "null"
              /\ Return(Error("cmps_all_wrapper error"))
        /\ UNCHANGED comp_mem
     \/ /\ comp_field_ptr = "alloc"
        /\ \E st \in {0, 1} :
             IF Failed(st)
             THEN /\ loc' = [loc EXCEPT !.status = st]
                  /\ hist' = [hist EXCEPT !.trace = Append(@, Event("cmps", st, comp_field_ptr, 0, <<>>))]
                  /\ comp_field_ptr' = "freed"
                  /\ Return(Error("cmps_all_wrapper error"))
                  /\ UNCHANGED comp_mem
             ELSE \E n \in 0..(2 * loc.len_comp), p \in PayloadWords :
                  LET mem == cmps_all_wrapper(loc.len_comp, loc.cols, loc.rows,
                                              loc.accuracy, n, p)
                      nw  == P_Round(n)
                  IN
                  /\ comp_mem' = mem
                  /\ loc' = [loc EXCEPT !.status = st, !.num_words = nw,
                                        !.out_len = nw * W]
                  /\ hist' = [hist EXCEPT !.trace = Append(@, Event("cmps", st, comp_field_ptr, n, mem)),
                                          !.n = n, !.native = Take(mem, nw * W)]
                  /\ pc' = "p_swap"
                  /\ UNCHANGED <<comp_field_ptr, result>>
  /\ UNCHANGED <<host, op, calls, bytes_in, mdi, dataout>>

(* the encode without its byte swap on the way out *)
P_ByteswapSkip ==
  /\ pc = "p_swap"
  /\ pc' = "p_string"
  /\ UNCHANGED <<host, op, calls, bytes_in, mdi, loc, dataout, comp_field_ptr,
                 comp_mem, result, hist>>

(* Lines 225-234: byte swap on the way out; the failure return does not    *)
(* free comp_field_ptr                                                     *)
P_Byteswap ==
  /\ pc = "p_swap"
  /\ IF NeedsSwap
     THEN \E st \in {0, 1} :
            /\ loc' = [loc EXCEPT !.status = st]
            /\ comp_mem' = IF st = 0 THEN pio_byteswap(comp_mem, loc.num_words, W)
                           ELSE comp_mem
            /\ hist' = [hist EXCEPT !.trace = Append(@, Event("swap", st, comp_field_ptr,
                                                              loc.num_words, comp_mem)),
                                    !.env = @ \/ st # 0]
            /\ IF Failed(st)
               THEN Return(Error("Problem in byte-swapping"))
               ELSE pc' = "p_string" /\ UNCHANGED result
     ELSE /\ pc' = "p_string"
          /\ UNCHANGED <<loc, comp_mem, hist, result>>
  /\ UNCHANGED <<host, op, calls, bytes_in, mdi, dataout, comp_field_ptr>>

(* Lines 236-243: PyString_FromStringAndSize copies out_len bytes, the     *)
(* buffer is freed and the string (or NULL) is returned                    *)
P_MakeString ==
  /\ pc = "p_string"
  /\ \E ok \in BOOLEAN :
       /\ hist' = [hist EXCEPT !.trace = Append(@, Event("string", IF ok THEN 0 ELSE 1,
                                                         comp_field_ptr, loc.out_len, <<>>)),
                               !.env = @ \/ ~ok]
       /\ Return(IF ok THEN BytesResult(Take(comp_mem, loc.out_len))
                 ELSE Error("MemoryError"))
  /\ comp_field_ptr' = "freed"
  /\ UNCHANGED <<host, op, calls, bytes_in, mdi, loc, dataout, comp_mem>>

(* The caller decodes the byte string an encode returned *)
UnpackPacked ==
  /\ pc = "done"
  /\ op = "pack"
  /\ result.kind = "bytes"
  /\ calls < MaxCalls
  /\ EnterUnpack(result.data, mdi, FALSE, TRUE)

----------------------------------------------------------------------------
Next ==
  \/ CallUnpack
  \/ RetryUnpack
  \/ UnpackPacked
  \/ U_Byteswap
  \/ U_ReadHeader
  \/ U_Alloc
  \/ U_Xpnd
  \/ U_MakeArray
  \/ CallPack
  \/ P_Alloc
  \/ P_Cmps
  \/ P_Byteswap
  \/ P_MakeString

Spec == Init /\ [][Next]_vars

----------------------------------------------------------------------------
(* Properties *)

Trace == hist.trace

Events(kinds) == { i \in 1..Len(Trace) : Trace[i].ev \in kinds }

(* Smallest k with 2k >= n *)
CeilHalf(n) == CHOOSE k \in 0..(n + 1) : 2 * k >= n /\ 2 * (k - 1) < n

(* C1: in a decode the steps happen in the order swap, header read,        *)
(* unpack: on a little-endian host the header is read only right after a   *)
(* successful swap, from a buffer in which every whole 8-byte word of the  *)
(* incoming bytes is reversed, and the unpacker is invoked only after a    *)
(* header read that reported success and never after a step that failed    *)
C1_Order ==
  op = "unpack" =>
    \A i \in 1..Len(Trace) :
      /\ Trace[i].ev = "header" =>
           IF host = "little"
           THEN /\ i > 1
                /\ Trace[i - 1].ev = "swap"
                /\ Trace[i - 1].st = 0
                /\ Trace[i - 1].mem = hist.entry
                /\ Trace[i].mem = SwapAllWords(hist.entry)
           ELSE Trace[i].mem = hist.entry
      /\ Trace[i].ev = "xpnd" =>
           /\ \E j \in 1..(i - 1) : Trace[j].ev = "header" /\ Trace[j].st = 0
           /\ \A j \in 1..(i - 1) : Trace[j].st = 0

C1_Witness ==
  /\ op = "unpack"
  /\ host = "little"
  /\ Events({"xpnd"}) # {}
  /\ SwapAllWords(hist.entry) # hist.entry

(* C2: a finished call whose codec call or any earlier step reported a     *)
(* non-zero status returned an error, and a field or byte string is        *)
(* returned only when every step reported success                          *)
C2_Atomic ==
  pc = "done" =>
    /\ result.kind \in {"error", "field", "bytes"}
    /\ (\E i \in Events({"swap", "header", "xpnd", "cmps"}) : Trace[i].st # 0)
         => result.kind = "error"
    /\ result.kind \in {"field", "bytes"} => \A i \in 1..Len(Trace) : Trace[i].st = 0

C2_Witness ==
  /\ pc = "done"
  /\ result.kind = "error"
  /\ \E i \in Events({"xpnd", "cmps"}) : Trace[i].st # 0 /\ Trace[i].ptr = "alloc"

(* C3: no failing call ends with a buffer it allocated that is neither     *)
(* freed nor owned by the caller                                           *)
C3_NoLeak ==
  (pc = "done" /\ result.kind = "error") =>
    /\ op = "unpack" => dataout # "alloc"
    /\ op = "pack" => comp_field_ptr # "alloc"

(* C4: after a failed decode the caller's byte buffer holds the bytes it   *)
(* held when the call was made                                             *)
C4_InputUntouched ==
  (op = "unpack" /\ pc = "done" /\ result.kind = "error") => bytes_in = hist.entry

(* C5: a decode repeated on the same caller-held buffer with the same mdi  *)
(* gives the outcome of the first decode (allocation and library failures  *)
(* and reads past a short buffer set aside)                                *)
C5_Deterministic ==
  (op = "unpack" /\ pc = "done" /\ hist.retry /\ ~hist.env /\ ~hist.prevEnv)
    => result = hist.prev

(* C6: the byte string an encode returns for a reported count of n 32-bit  *)
(* words is 8*ceil(n/2) bytes long: whole 8-byte words, at least 4n bytes, *)
(* at most 4 bytes of padding, and as many words were swapped on the way   *)
(* out as are returned                                                     *)
C6_Length ==
  (op = "pack" /\ pc = "done" /\ result.kind = "bytes") =>
    LET n == hist.n
        L == Len(result.data)
    IN  /\ L = 8 * CeilHalf(n)
        /\ L % 8 = 0
        /\ L >= 4 * n
        /\ L - 4 * n <= 4
        /\ \A i \in Events({"swap"}) : 8 * Trace[i].n = L

C6_Witness ==
  /\ op = "pack"
  /\ pc = "done"
  /\ result.kind = "bytes"
  /\ hist.n % 2 = 1
  /\ hist.n >= 3
  /\ Events({"swap"}) # {}

(* C7: a decode of a buffer whose length is not a multiple of 8 never      *)
(* reads the header nor unpacks, and ends in an error                      *)
C7_InvalidLength ==
  (op = "unpack" /\ Len(hist.entry) % W # 0) =>
    /\ Events({"header", "calloc", "xpnd"}) = {}
    /\ pc = "done" => result.kind = "error"

(* C8: the output field is allocated and the unpacker invoked only with    *)
(* rows > 0, cols > 0 and an input at least as long as the header          *)
C8_MalformedHeader ==
  (op = "unpack" /\ Events({"calloc", "xpnd"}) # {}) =>
    /\ loc.rows > 0
    /\ loc.cols > 0
    /\ Len(hist.entry) >= HeaderBytes

(* C9: when the allocation returns NULL the call fails and neither the     *)
(* codec routine nor the byte swap is invoked on the missing buffer        *)
C9_AllocFailure ==
  /\ \A i \in Events({"cmps", "xpnd", "swap"}) : Trace[i].ptr # "null"
  /\ (pc = "done" /\ \E i \in Events({"calloc"}) : Trace[i].ptr = "null")
       => result.kind = "error"

(* C10: on a big-endian host the normalization leaves the buffers as they  *)
(* are; on a little-endian host the swap of the decode undoes the swap of  *)
(* the encode, so the words the header reader and the unpacker are given   *)
(* when the output of an encode is decoded are the native words the packer *)
(* produced                                                                *)
C10_RoundTrip ==
  /\ (op = "unpack" /\ host = "big") => bytes_in = hist.entry
  /\ (op = "pack" /\ host = "big" /\ pc \in {"p_string", "done"} /\ loc.status = 0)
       => Take(comp_mem, loc.out_len) = hist.native
  /\ (op = "unpack" /\ hist.fromPack /\ ~hist.retry) =>
       /\ \A i \in Events({"header"}) : Trace[i].mem = hist.native
       /\ \A i \in Events({"xpnd"}) : Trace[i].mem = hist.native

C10_Witness ==
  /\ op = "unpack"
  /\ host = "little"
  /\ hist.fromPack
  /\ ~hist.retry
  /\ Events({"xpnd"}) # {}
  /\ SwapAllWords(hist.native) # hist.native
  /\ hist.entry = SwapAllWords(hist.native)

====
